---- MODULE Spec2Model ----
(***************************************************************************)
(* RubberTapAI-Server: leaf-disease inference behind two transports.       *)
(*                                                                         *)
(* Three server programs are modelled, one process each:                   *)
(*   "predict_v1"  POST /predict, src/unnamed/part_000 lines 1-193         *)
(*   "predict_v2"  POST /predict, src/unnamed/part_000 lines 194-348       *)
(*   "stream"      WebSocket frames, src/server.js                         *)
(* Every async handler is cut at its await expressions: one action per     *)
(* synchronous segment.  Probabilities are integers in tenths (7 = 0.7).   *)
(***************************************************************************)
EXTENDS Integers, Sequences, FiniteSets, TLC

\* ---------------------------------------------------------------- bounds
MaxReq == 2          \* POST /predict requests per run
MaxMsgs == 2         \* inbound WebSocket messages per run
MaxConns == 2        \* WebSocket connections per run
MaxOutLen == 5       \* longest raw output array fed to the reduce

\* ------------------------------------------------------ program constants
LabelCount == 4      \* classNames.length
LowConfidence == 6   \* topPrediction.probability < 0.6, in tenths
ChainTensors == 4    \* decodeImage, resizeNearestNeighbor, div, expandDims

Programs == {"predict_v1", "predict_v2", "stream"}
HttpPrograms == {"predict_v1", "predict_v2"}
TidyPrograms == {"predict_v2", "stream"}

Reqs == 1..MaxReq
Conns == 1..MaxConns

Unset == 0           \* `let model;` before the load assigns it
OutLens == {LabelCount - 1, LabelCount, LabelCount + 1}
ProbValues == {0, 5, 7}

classNames == <<"Oidium Heveae", "Healthy", "Anthracnose", "Leaf Spot">>
Undefined == "undefined"
Seed == [className |-> "", probability |-> 0]

VARIABLES
  program,        \* which of the three server programs this process runs
  loadPc,         \* startup IIFE: "loading", "loaded" or "failed"
  model,          \* the model handle: Unset, or the loaded model's output length
  liveTensors,    \* tensors allocated and not disposed (tf.memory().numTensors)
  forwardUnset,   \* history: model.predict was reached while model was unset
  lowConfidenceWarns, \* history: console.warn calls of the low-confidence signal
  \* --- POST /predict, per request
  pc,             \* "idle","handler","awaitProbs","awaitUnlink","awaitUnlinkErr","done"
  imagePath,      \* the temp file of the request: "none", "present", "absent"
  probabilities,  \* local: raw model output awaited at the first await
  err,            \* local: message of the error caught by the outer catch
  response,       \* local: the success body built before the unlink
  res,            \* what was sent on res (status 0 = nothing yet)
  sawModel,       \* history: handle state when the handler started
  unlinkAttempts, \* history: calls of fs.promises.unlink
  unlinkFailed,   \* history: an unlink call rejected
  fsAccess,       \* history: file-system calls made by the handler
  readOf,         \* history: the stored upload the handler read (0 = none)
  unlinkOf,       \* history: the stored upload the handler unlinked (0 = none)
  answers,        \* history: responses sent on res
  \* --- WebSocket
  conn,           \* per connection: "none", "open", "closed"
  closedBy,       \* history: "nobody", "peer", "server"
  inbox,          \* history, per connection: the messages received, in order
  sent,           \* per connection: the messages passed to ws.send, in order
  microtasks,     \* continuations suspended at `await predictLeafDisease`
  draining,       \* the microtask queue is being drained
  \* --- reduce harness
  rawOutput,      \* the raw output array handed to map/reduce
  reduceIdx,      \* next index the reduce visits
  topPrediction   \* the reduce accumulator `max`, finally the top prediction

commonVars == <<program, loadPc, model, liveTensors, forwardUnset,
                lowConfidenceWarns>>
httpVars == <<pc, imagePath, probabilities, err, response, res, sawModel,
              unlinkAttempts, unlinkFailed, fsAccess, readOf, unlinkOf, answers>>
wsVars == <<conn, closedBy, inbox, sent, microtasks, draining>>
reduceVars == <<rawOutput, reduceIdx, topPrediction>>
vars == <<commonVars, httpVars, wsVars, reduceVars>>

\* ------------------------------------------------------- pure operators

\* classNames[index] of a JavaScript array: undefined past the end
ClassNameAt(index) ==
  IF index \in DOMAIN classNames THEN classNames[index] ELSE Undefined

\* probabilities.map((prob, index) => ({className: classNames[index], probability: prob}))
Predictions(probs) ==
  [index \in 1..Len(probs) |->
     [className |-> ClassNameAt(index), probability |-> probs[index]]]

\* a reduce that lets a later equal entry replace the kept one
PickLast(max, p) == IF p.probability >= max.probability THEN p ELSE max

\* (max, p) => (p.probability > max.probability ? p : max)
Pick(max, p) == IF p.probability > max.probability THEN p ELSE max

RECURSIVE ReduceFrom(_, _, _)
ReduceFrom(predictions, i, max) ==
  IF i > Len(predictions) THEN max
  ELSE ReduceFrom(predictions, i + 1, Pick(max, predictions[i]))

\* predictions.reduce(..., { className: "", probability: 0 })
TopPrediction(predictions) == ReduceFrom(predictions, 1, Seed)

\* a readiness check that lets every request through
NotReadyNever(m) == FALSE

\* if (!model)
NotReady(m) == m = Unset

\* tensors still alive after tf.tidy(fn) returned or threw
Tidy(created) == 0

\* tensors an inference leaves behind
Retained(prog, created) ==
  IF prog \in TidyPrograms THEN Tidy(created) ELSE created

\* raw outputs a model of output length n can produce: all zero, one clear
\* maximum, and a tie below the confidence threshold
ModelOutputs(n) ==
  {[i \in 1..n |-> 0], [i \in 1..n |-> IF i = 2 THEN 7 ELSE 1], [i \in 1..n |-> 5]}

NumStr(n) == <<"0", "1", "2", "3", "4", "5", "6", "7", "8", "9">>[n + 1]

\* messages of the errors the handlers can see
ReadMessage(code) == code \o ": readFileSync failed"
DecodeMessage == "Expected image (BMP, JPEG, PNG, or GIF), but got unsupported image type"
ForwardCause == "Error when checking input"
PredictMessage(cause) == "Model prediction failed: " \o cause
MismatchMessage(n) ==
  "Expected " \o NumStr(LabelCount) \o " output classes but got " \o NumStr(n)

NoRes == [status |-> 0, error |-> "", details |-> "",
          predictions |-> <<>>, topPrediction |-> Seed]
NotReadyRes == [NoRes EXCEPT !.status = 503,
                 !.error = "Model not loaded yet. Please try again later."]
\* a missing upload reported as a failed prediction
NoFileResAsFailure == [NoRes EXCEPT !.status = 500, !.error = "Prediction failed",
                        !.details = "No image uploaded"]

\* res.status(400).json({ error: "No image uploaded" })
NoFileRes == [NoRes EXCEPT !.status = 400, !.error = "No image uploaded"]
\* a 500 body that drops the caught error's message
FailedResNoDetails(message) == [NoRes EXCEPT !.status = 500,
                                 !.error = "Prediction failed"]

\* res.status(500).json({ error: "Prediction failed", details: err.message })
FailedRes(message) == [NoRes EXCEPT !.status = 500,
                        !.error = "Prediction failed", !.details = message]
SuccessRes(body) == [body EXCEPT !.status = 200]

\* the `response` object literal
ResponseBody(probs) ==
  [NoRes EXCEPT !.predictions = Predictions(probs),
                !.topPrediction = TopPrediction(Predictions(probs))]

\* ------------------------------------------------------------- initial state
InitServer ==
  /\ program \in Programs
  /\ loadPc = "loading"
  /\ model = Unset
  /\ liveTensors = 0
  /\ forwardUnset = FALSE
  /\ lowConfidenceWarns = 0
  /\ pc = [r \in Reqs |-> "idle"]
  /\ imagePath = [r \in Reqs |-> "none"]
  /\ probabilities = [r \in Reqs |-> <<>>]
  /\ err = [r \in Reqs |-> ""]
  /\ response = [r \in Reqs |-> NoRes]
  /\ res = [r \in Reqs |-> NoRes]
  /\ sawModel = [r \in Reqs |-> "n/a"]
  /\ unlinkAttempts = [r \in Reqs |-> 0]
  /\ unlinkFailed = [r \in Reqs |-> FALSE]
  /\ fsAccess = [r \in Reqs |-> 0]
  /\ readOf = [r \in Reqs |-> 0]
  /\ unlinkOf = [r \in Reqs |-> 0]
  /\ answers = [r \in Reqs |-> 0]
  /\ conn = [c \in Conns |-> "none"]
  /\ closedBy = [c \in Conns |-> "nobody"]
  /\ inbox = [c \in Conns |-> <<>>]
  /\ sent = [c \in Conns |-> <<>>]
  /\ microtasks = <<>>
  /\ draining = FALSE

Init ==
  /\ InitServer
  /\ rawOutput = <<>>
  /\ reduceIdx = 1
  /\ topPrediction = Seed

\* ------------------------------------------------------------ model load
\* model = await tf.loadLayersModel(...)
LoadModelOk ==
  /\ loadPc = "loading"
  /\ \E n \in OutLens : model' = n
  /\ loadPc' = "loaded"
  /\ UNCHANGED <<program, liveTensors, forwardUnset, lowConfidenceWarns, httpVars,
                 wsVars, reduceVars>>

\* a load whose failure handling clears a handle that was already assigned
LoadModelFailLate ==
  /\ loadPc \in {"loading", "loaded"}
  /\ loadPc' = "failed"
  /\ model' = Unset
  /\ UNCHANGED <<program, liveTensors, forwardUnset, lowConfidenceWarns,
                 httpVars, wsVars, reduceVars>>

\* catch (err) { console.error("Failed to load model") }
LoadModelFail ==
  /\ loadPc = "loading"
  /\ loadPc' = "failed"
  /\ UNCHANGED <<program, model, liveTensors, forwardUnset, lowConfidenceWarns,
                 httpVars, wsVars, reduceVars>>

\* ---------------------------------------------------------- POST /predict
HandleState(m) == IF m = Unset THEN "unset" ELSE "loaded"

\* every request handed the same stored file
FileOfShared(r) == 1

\* const imagePath = req.file.path: the stored upload of request r, under the
\* name the upload middleware generated for this request alone
FileOf(r) == r

\* res.json(...) / res.status(...).json(...)
Respond(r, body) ==
  /\ res' = [res EXCEPT ![r] = body]
  /\ answers' = [answers EXCEPT ![r] = @ + 1]

\* upload.single("image"): the middleware stores the upload, then calls the handler
HttpArrive(r) ==
  /\ program \in HttpPrograms
  /\ pc[r] = "idle"
  /\ \A q \in Reqs : q < r => pc[q] # "idle"
  /\ \E f \in {"none", "present"} :
       imagePath' = [imagePath EXCEPT ![FileOf(r)] = f]
  /\ pc' = [pc EXCEPT ![r] = "handler"]
  /\ UNCHANGED <<commonVars, probabilities, err, response, res, answers, sawModel,
                 unlinkAttempts, unlinkOf, unlinkFailed, fsAccess, readOf,
                 wsVars, reduceVars>>

\* the uploads directory is shared storage: a temp file can vanish under the handler
ExternalRemove(r) ==
  /\ program \in HttpPrograms
  /\ pc[r] \notin {"idle", "done"}
  /\ imagePath[r] = "present"
  /\ imagePath' = [imagePath EXCEPT ![r] = "absent"]
  /\ UNCHANGED <<commonVars, pc, probabilities, err, response, res, answers,
                 sawModel, unlinkAttempts, unlinkOf, unlinkFailed, fsAccess,
                 readOf, wsVars, reduceVars>>

\* if (!model) return res.status(503).json(...)
HttpNotReady(r) ==
  /\ program \in HttpPrograms
  /\ pc[r] = "handler"
  /\ NotReady(model)
  /\ Respond(r, NotReadyRes)
  /\ pc' = [pc EXCEPT ![r] = "done"]
  /\ sawModel' = [sawModel EXCEPT ![r] = HandleState(model)]
  /\ UNCHANGED <<commonVars, imagePath, probabilities, err, response,
                 unlinkAttempts, unlinkOf, unlinkFailed, fsAccess, readOf,
                 wsVars, reduceVars>>

\* the missing-file check placed ahead of the readiness check
HttpNoFileFirst(r) ==
  /\ program \in HttpPrograms
  /\ pc[r] = "handler"
  /\ imagePath[FileOf(r)] = "none"
  /\ Respond(r, NoFileRes)
  /\ pc' = [pc EXCEPT ![r] = "done"]
  /\ sawModel' = [sawModel EXCEPT ![r] = HandleState(model)]
  /\ UNCHANGED <<commonVars, imagePath, probabilities, err, response,
                 unlinkAttempts, unlinkOf, unlinkFailed, fsAccess, readOf,
                 wsVars, reduceVars>>

\* if (!req.file) return res.status(400).json(...)
HttpNoFile(r) ==
  /\ program \in HttpPrograms
  /\ pc[r] = "handler"
  /\ ~NotReady(model)
  /\ imagePath[FileOf(r)] = "none"
  /\ Respond(r, NoFileRes)
  /\ pc' = [pc EXCEPT ![r] = "done"]
  /\ sawModel' = [sawModel EXCEPT ![r] = HandleState(model)]
  /\ UNCHANGED <<commonVars, imagePath, probabilities, err, response,
                 unlinkAttempts, unlinkOf, unlinkFailed, fsAccess, readOf,
                 wsVars, reduceVars>>

\* a catch block that never cleans up
ShouldUnlinkNever(path) == FALSE

\* if (fs.existsSync(imagePath))
ShouldUnlink(path) == path = "present"

\* a catch that sends the 500 before the cleanup and again after it
CatchAnswersFirst(r, message, fsBefore) ==
  /\ err' = [err EXCEPT ![r] = message]
  /\ Respond(r, FailedRes(message))
  /\ IF ShouldUnlink(imagePath[FileOf(r)])
       THEN /\ unlinkAttempts' = [unlinkAttempts EXCEPT ![r] = @ + 1]
            /\ unlinkOf' = [unlinkOf EXCEPT ![r] = FileOf(r)]
            /\ fsAccess' = [fsAccess EXCEPT ![r] = @ + fsBefore + 2]
            /\ pc' = [pc EXCEPT ![r] = "awaitUnlinkErr"]
       ELSE /\ UNCHANGED <<unlinkAttempts, unlinkOf>>
            /\ fsAccess' = [fsAccess EXCEPT ![r] = @ + fsBefore + 1]
            /\ pc' = [pc EXCEPT ![r] = "done"]

\* outer catch (err): existsSync, unlink when the file is there, else the 500 at once
Catch(r, message, fsBefore) ==
  /\ err' = [err EXCEPT ![r] = message]
  /\ IF ShouldUnlink(imagePath[FileOf(r)])
       THEN /\ unlinkAttempts' = [unlinkAttempts EXCEPT ![r] = @ + 1]
            /\ unlinkOf' = [unlinkOf EXCEPT ![r] = FileOf(r)]
            /\ fsAccess' = [fsAccess EXCEPT ![r] = @ + fsBefore + 2]
            /\ pc' = [pc EXCEPT ![r] = "awaitUnlinkErr"]
            /\ UNCHANGED <<res, answers>>
       ELSE /\ UNCHANGED <<unlinkAttempts, unlinkOf>>
            /\ fsAccess' = [fsAccess EXCEPT ![r] = @ + fsBefore + 1]
            /\ pc' = [pc EXCEPT ![r] = "done"]
            /\ Respond(r, FailedRes(message))

ReadOutcomes(path) == IF path = "present" THEN {"ok", "EACCES"} ELSE {"ENOENT"}
StageOutcomes == {"ok", "fail"}

\* readFileSync, decode/resize/div/expandDims, model.predict, up to the first await
HttpProcess(r) ==
  /\ program \in HttpPrograms
  /\ pc[r] = "handler"
  /\ ~NotReady(model)
  /\ imagePath[FileOf(r)] # "none"
  /\ sawModel' = [sawModel EXCEPT ![r] = HandleState(model)]
  /\ readOf' = [readOf EXCEPT ![r] = FileOf(r)]
  /\ \E rd \in ReadOutcomes(imagePath[FileOf(r)]), dec \in StageOutcomes,
        fw \in StageOutcomes, out \in ModelOutputs(model) :
       IF rd # "ok" THEN
         /\ Catch(r, ReadMessage(rd), 1)
         /\ UNCHANGED <<liveTensors, forwardUnset, probabilities>>
       ELSE IF dec # "ok" THEN
         /\ Catch(r, DecodeMessage, 1)
         /\ liveTensors' = liveTensors + Retained(program, 0)
         /\ UNCHANGED <<forwardUnset, probabilities>>
       ELSE IF fw # "ok" THEN
         /\ Catch(r, PredictMessage(ForwardCause), 1)
         /\ liveTensors' = liveTensors + Retained(program, ChainTensors)
         /\ forwardUnset' = (forwardUnset \/ model = Unset)
         /\ UNCHANGED probabilities
       ELSE
         /\ probabilities' = [probabilities EXCEPT ![r] = out]
         /\ liveTensors' = liveTensors + Retained(program, ChainTensors + 1)
         /\ forwardUnset' = (forwardUnset \/ model = Unset)
         /\ fsAccess' = [fsAccess EXCEPT ![r] = @ + 1]
         /\ pc' = [pc EXCEPT ![r] = "awaitProbs"]
         /\ UNCHANGED <<err, unlinkAttempts, unlinkOf, res, answers>>
  /\ UNCHANGED <<program, loadPc, model, lowConfidenceWarns, imagePath, response,
                 unlinkFailed, wsVars, reduceVars>>

\* if (probabilities.length !== classNames.length) throw
ShapeOk(probs) == Len(probs) = LabelCount

\* if (topPrediction.probability < 0.6) console.warn(...)
Warns(top) == top.probability < LowConfidence

\* after the first await: length check, map, reduce, warn, response, unlink call
HttpPostprocess(r) ==
  /\ program \in HttpPrograms
  /\ pc[r] = "awaitProbs"
  /\ IF ~ShapeOk(probabilities[r]) THEN
       /\ Catch(r, MismatchMessage(Len(probabilities[r])), 0)
       /\ UNCHANGED <<response, lowConfidenceWarns>>
     ELSE
       /\ lowConfidenceWarns' =
            IF Warns(TopPrediction(Predictions(probabilities[r])))
              THEN lowConfidenceWarns + 1 ELSE lowConfidenceWarns
       /\ response' = [response EXCEPT ![r] = ResponseBody(probabilities[r])]
       /\ unlinkAttempts' = [unlinkAttempts EXCEPT ![r] = @ + 1]
       /\ unlinkOf' = [unlinkOf EXCEPT ![r] = FileOf(r)]
       /\ fsAccess' = [fsAccess EXCEPT ![r] = @ + 1]
       /\ pc' = [pc EXCEPT ![r] = "awaitUnlink"]
       /\ UNCHANGED <<err, res, answers>>
  /\ probabilities' = [probabilities EXCEPT ![r] = <<>>]
  /\ UNCHANGED <<program, loadPc, model, liveTensors, forwardUnset, imagePath,
                 sawModel, unlinkFailed, readOf, wsVars, reduceVars>>

UnlinkOutcomes(path) == IF path = "present" THEN {"ok", "EPERM"} ELSE {"ENOENT"}

\* an inner catch that reports the cleanup failure to the client
AfterUnlinkPropagate(primary, outcome) ==
  IF outcome = "ok" THEN primary ELSE FailedRes(outcome)

\* try { await unlink } catch (e) { console.error(e) }: the result stands
AfterUnlink(primary, outcome) == primary

\* success path: the unlink settles, then res.json(response)
HttpUnlinked(r) ==
  /\ program \in HttpPrograms
  /\ pc[r] = "awaitUnlink"
  /\ \E o \in UnlinkOutcomes(imagePath[FileOf(r)]) :
       /\ imagePath' = [imagePath EXCEPT ![FileOf(r)] = IF o = "ok" THEN "absent" ELSE @]
       /\ unlinkFailed' = [unlinkFailed EXCEPT ![r] = (o # "ok")]
       /\ Respond(r, AfterUnlink(SuccessRes(response[r]), o))
  /\ pc' = [pc EXCEPT ![r] = "done"]
  /\ UNCHANGED <<commonVars, probabilities, err, response, sawModel,
                 unlinkAttempts, unlinkOf, fsAccess, readOf, wsVars, reduceVars>>

\* failure path: the unlink settles, then res.status(500).json(...)
HttpCleanedUp(r) ==
  /\ program \in HttpPrograms
  /\ pc[r] = "awaitUnlinkErr"
  /\ \E o \in UnlinkOutcomes(imagePath[FileOf(r)]) :
       /\ imagePath' = [imagePath EXCEPT ![FileOf(r)] = IF o = "ok" THEN "absent" ELSE @]
       /\ unlinkFailed' = [unlinkFailed EXCEPT ![r] = (o # "ok")]
       /\ Respond(r, AfterUnlink(FailedRes(err[r]), o))
  /\ pc' = [pc EXCEPT ![r] = "done"]
  /\ UNCHANGED <<commonVars, probabilities, err, response, sawModel,
                 unlinkAttempts, unlinkOf, fsAccess, readOf, wsVars, reduceVars>>

\* ------------------------------------------------------------- WebSocket
\* inbound messages, by what the handler's first synchronous segment meets:
\*   "garbage"    JSON.parse throws
\*   "other"      parses, message.type is not "frame"
\*   "noPayload"  type "frame", frameData missing: .split throws
\*   "noComma"    frameData without a comma: Buffer.from(undefined) throws
\*   "badImage"   payload bytes that tf.node.decodeImage rejects
\*   "badTensor"  a decodable image on which model.predict throws
\*   "frame"      a decodable image the model classifies
\* `ready` records whether the model handle was set when the message arrived.
MsgKinds == {"garbage", "other", "noPayload", "noComma", "badImage", "badTensor", "frame"}
SyncFailKinds == {"garbage", "noPayload", "noComma"}
InferKinds == {"badImage", "badTensor", "frame"}

Inbound(kind) == [kind |-> kind, ready |-> model # Unset]

SyncMessage(kind) ==
  CASE kind = "garbage" -> "Unexpected token in JSON"
    [] kind = "noPayload" -> "Cannot read properties of undefined (reading 'split')"
    [] OTHER -> "The first argument must be of type string or an instance of Buffer"

NotLoadedMessage == "Model not loaded yet"
StreamMessage(cause) == "Prediction failed: " \o cause

\* (topPrediction.probability * 100).toFixed(2), probability in tenths
Confidence(p) ==
  IF p = 0 THEN "0.00" ELSE IF p = 10 THEN "100.00" ELSE NumStr(p) \o "0.00"

NoMsg == [type |-> "", error |-> "", predictions |-> <<>>,
          topPrediction |-> Seed, confidence |-> ""]

\* an error reply without its type tag
ErrorMsgUntyped(message) == [NoMsg EXCEPT !.error = message]

\* { type: "error", error: err.message, predictions: [] }
ErrorMsg(message) == [NoMsg EXCEPT !.type = "error", !.error = message]

\* the object returned from tf.tidy in predictLeafDisease
Prediction(probs) ==
  [predictions |-> Predictions(probs),
   topPrediction |-> TopPrediction(Predictions(probs)),
   confidence |-> Confidence(TopPrediction(Predictions(probs)).probability)]

\* { type: "prediction", predictions, topPrediction, confidence, timestamp }
PredictionMsg(prediction) ==
  [NoMsg EXCEPT !.type = "prediction",
                !.predictions = prediction.predictions,
                !.topPrediction = prediction.topPrediction,
                !.confidence = prediction.confidence]

RECURSIVE SumLen(_, _)
SumLen(f, S) ==
  IF S = {} THEN 0
  ELSE LET c == CHOOSE x \in S : TRUE IN Len(f[c]) + SumLen(f, S \ {c})

Received == SumLen(inbox, Conns)

\* wss.on("connection", ...)
WsConnect(c) ==
  /\ program = "stream"
  /\ conn[c] = "none"
  /\ \A d \in Conns : d < c => conn[d] # "none"
  /\ conn' = [conn EXCEPT ![c] = "open"]
  /\ UNCHANGED <<commonVars, httpVars, closedBy, inbox, sent, microtasks,
                 draining, reduceVars>>

\* ws.on("close", ...): the peer went away.  A peer that leaves before its
\* first message, or when the run has no message left to deliver, changes
\* nothing that can be observed, so those disconnects are not enumerated.
WsClose(c) ==
  /\ program = "stream"
  /\ conn[c] = "open"
  /\ microtasks = <<>>
  /\ inbox[c] # <<>>
  /\ Received < MaxMsgs
  /\ conn' = [conn EXCEPT ![c] = "closed"]
  /\ closedBy' = [closedBy EXCEPT ![c] = "peer"]
  /\ UNCHANGED <<commonVars, httpVars, inbox, sent, microtasks, draining,
                 reduceVars>>

\* a reply pushed to every client of wss.clients
SendBroadcast(c, i, msg) ==
  sent' = [d \in Conns |->
             IF conn[d] = "open"
               THEN Append(sent[d], [from |-> c, re |-> i, msg |-> msg])
               ELSE sent[d]]

\* ws.send(JSON.stringify(msg)) on the socket of the handler's closure, for
\* inbound message number i of connection c
Send(c, i, msg) ==
  sent' = [sent EXCEPT ![c] = Append(@, [from |-> c, re |-> i, msg |-> msg])]

\* the receiver emits every message of one socket chunk before the microtask
\* queue runs: a message can be dispatched while continuations of the same
\* connection are still suspended, but not once the queue is being drained
CanDispatch(c) ==
  /\ ~draining
  /\ IF microtasks = <<>> THEN TRUE ELSE microtasks[1].conn = c

\* ws.on("message"): a message that fails before predictLeafDisease is called
WsSyncFail(c) ==
  /\ program = "stream"
  /\ conn[c] = "open" /\ CanDispatch(c) /\ Received < MaxMsgs
  /\ \E kind \in SyncFailKinds :
       /\ inbox' = [inbox EXCEPT ![c] = Append(@, Inbound(kind))]
       /\ Send(c, Len(inbox[c]) + 1, ErrorMsg(SyncMessage(kind)))
  /\ UNCHANGED <<commonVars, httpVars, conn, closedBy, microtasks, draining,
                 reduceVars>>

\* a handler that answers a message of another type with an error
WsOtherReplies(c) ==
  /\ program = "stream"
  /\ conn[c] = "open" /\ CanDispatch(c) /\ Received < MaxMsgs
  /\ inbox' = [inbox EXCEPT ![c] = Append(@, Inbound("other"))]
  /\ Send(c, Len(inbox[c]) + 1, ErrorMsg("Unknown message type"))
  /\ UNCHANGED <<commonVars, httpVars, conn, closedBy, microtasks,
                 draining, reduceVars>>

\* ws.on("message"): message.type !== "frame", the handler falls through
WsOther(c) ==
  /\ program = "stream"
  /\ conn[c] = "open" /\ CanDispatch(c) /\ Received < MaxMsgs
  /\ inbox' = [inbox EXCEPT ![c] = Append(@, Inbound("other"))]
  /\ UNCHANGED <<commonVars, httpVars, conn, closedBy, sent, microtasks,
                 draining, reduceVars>>

\* the continuation of `await predictLeafDisease(buffer)`
Suspend(c, i, settled) ==
  microtasks' = Append(microtasks, [conn |-> c, re |-> i, settled |-> settled])

Rejected(message) == [ok |-> FALSE, message |-> message, probs |-> <<>>]
Resolved(probs) == [ok |-> TRUE, message |-> "", probs |-> probs]

\* ws.on("message") up to the await, with predictLeafDisease run to its end
WsFrame(c) ==
  /\ program = "stream"
  /\ conn[c] = "open" /\ CanDispatch(c) /\ Received < MaxMsgs
  /\ \E kind \in InferKinds, out \in ModelOutputs(model) :
       /\ inbox' = [inbox EXCEPT ![c] = Append(@, Inbound(kind))]
       /\ IF NotReady(model) THEN
            /\ Suspend(c, Len(inbox[c]) + 1, Rejected(NotLoadedMessage))
            /\ UNCHANGED <<liveTensors, forwardUnset>>
          ELSE IF kind = "badImage" THEN
            /\ Suspend(c, Len(inbox[c]) + 1, Rejected(StreamMessage(DecodeMessage)))
            /\ liveTensors' = liveTensors + Retained(program, 0)
            /\ UNCHANGED forwardUnset
          ELSE IF kind = "badTensor" THEN
            /\ Suspend(c, Len(inbox[c]) + 1, Rejected(StreamMessage(ForwardCause)))
            /\ liveTensors' = liveTensors + Retained(program, ChainTensors)
            /\ forwardUnset' = (forwardUnset \/ model = Unset)
          ELSE
            /\ Suspend(c, Len(inbox[c]) + 1, Resolved(out))
            /\ liveTensors' = liveTensors + Retained(program, ChainTensors + 1)
            /\ forwardUnset' = (forwardUnset \/ model = Unset)
  /\ UNCHANGED <<program, loadPc, model, lowConfidenceWarns, httpVars, conn,
                 closedBy, sent, draining, reduceVars>>

\* a catch that only logs the rejected inference
WsResumeLogOnly ==
  /\ program = "stream"
  /\ microtasks # <<>>
  /\ LET t == microtasks[1] IN
       IF t.settled.ok
         THEN Send(t.conn, t.re, PredictionMsg(Prediction(t.settled.probs)))
         ELSE sent' = sent
  /\ microtasks' = Tail(microtasks)
  /\ draining' = (Tail(microtasks) # <<>>)
  /\ UNCHANGED <<commonVars, httpVars, conn, closedBy, inbox, reduceVars>>

\* the handler resumes: ws.send of the prediction, or the catch's ws.send
WsResume ==
  /\ program = "stream"
  /\ microtasks # <<>>
  /\ LET t == microtasks[1] IN
       IF t.settled.ok
         THEN Send(t.conn, t.re, PredictionMsg(Prediction(t.settled.probs)))
         ELSE Send(t.conn, t.re, ErrorMsg(t.settled.message))
  /\ microtasks' = Tail(microtasks)
  /\ draining' = (Tail(microtasks) # <<>>)
  /\ UNCHANGED <<commonVars, httpVars, conn, closedBy, inbox, reduceVars>>

\* modelLoaded: !!model
ModelLoaded(m) == m # Unset

\* app.get("/health"): the body it answers with; the handler is synchronous
\* and writes nothing
Health ==
  [status |-> "ok",
   modelLoaded |-> ModelLoaded(model),
   connectedClients |-> Cardinality({c \in Conns : conn[c] = "open"})]

NextWs ==
  \/ LoadModelOk
  \/ LoadModelFail
  \/ \E c \in Conns : WsConnect(c)
  \/ \E c \in Conns : WsClose(c)
  \/ \E c \in Conns : WsSyncFail(c)
  \/ \E c \in Conns : WsOther(c)
  \/ \E c \in Conns : WsFrame(c)
  \/ WsResume

NextHttp ==
  \/ LoadModelOk
  \/ LoadModelFail
  \/ \E r \in Reqs : HttpArrive(r)
  \/ \E r \in Reqs : ExternalRemove(r)
  \/ \E r \in Reqs : HttpNotReady(r)
  \/ \E r \in Reqs : HttpNoFile(r)
  \/ \E r \in Reqs : HttpProcess(r)
  \/ \E r \in Reqs : HttpPostprocess(r)
  \/ \E r \in Reqs : HttpUnlinked(r)
  \/ \E r \in Reqs : HttpCleanedUp(r)

Next == NextHttp \/ NextWs

Spec == Init /\ [][Next]_vars

\* ------------------------------------------- POST /predict under fair scheduling
InitHttp == Init /\ program \in HttpPrograms

\* the next step of request r's handler: the synchronous segment of a
\* dispatched request, or a continuation whose promise (prediction.array(),
\* fs.promises.unlink) has settled
HandlerStep(r) ==
  \/ HttpNotReady(r)
  \/ HttpNoFile(r)
  \/ HttpProcess(r)
  \/ HttpPostprocess(r)
  \/ HttpUnlinked(r)
  \/ HttpCleanedUp(r)

\* the event loop does not stop while a callback is ready to run
SpecHttpLive ==
  InitHttp /\ [][NextHttp]_vars /\ WF_vars(\E r \in Reqs : HandlerStep(r))

\* ------------------------------------------------- the reduce, step by step
RawOutputs == UNION {[1..n -> ProbValues] : n \in 0..MaxOutLen}

InitReduce ==
  /\ InitServer
  /\ rawOutput \in RawOutputs
  /\ reduceIdx = 1
  /\ topPrediction = Seed

\* one callback of predictions.reduce over probabilities.map(...)
ReduceStep ==
  /\ reduceIdx <= Len(rawOutput)
  /\ topPrediction' = Pick(topPrediction, Predictions(rawOutput)[reduceIdx])
  /\ reduceIdx' = reduceIdx + 1
  /\ UNCHANGED <<commonVars, httpVars, wsVars, rawOutput>>

NextReduce == ReduceStep

SpecReduce == InitReduce /\ [][NextReduce]_vars

\* ===================================================================== claims
Done(r) == pc[r] = "done"
Quiescent == \A r \in Reqs : pc[r] \in {"idle", "done"}

Pending(c, i) ==
  \E k \in DOMAIN microtasks : microtasks[k].conn = c /\ microtasks[k].re = i
Replies(c, i) == {k \in DOMAIN sent[c] : sent[c][k].re = i}
Fails(m) ==
  \/ m.kind \in SyncFailKinds \cup {"badImage", "badTensor"}
  \/ m.kind = "frame" /\ ~m.ready
Valid(m) == m.kind = "frame" /\ m.ready
Aligned(predictions) ==
  /\ Len(predictions) = LabelCount
  /\ \A i \in DOMAIN predictions : predictions[i].className = classNames[i]

\* C1 as stated: every request that reached processing (answered 200 or 500)
\* has had exactly one deletion attempt of its temp file when it is finished.
C1_ExactlyOneAttempt ==
  \A r \in Reqs :
    (Done(r) /\ res[r].status \in {200, 500}) => unlinkAttempts[r] = 1

\* C1 amended: deletion of a request's temp file is attempted at most once;
\* exactly once on the success path; on a failure path exactly once unless the
\* file was already gone when the handler looked for it, then not at all.
C1_AtMostOneAttempt ==
  \A r \in Reqs :
    /\ unlinkAttempts[r] <= 1
    /\ (Done(r) /\ res[r].status = 200) => unlinkAttempts[r] = 1
    /\ (Done(r) /\ res[r].status = 500 /\ unlinkAttempts[r] = 0)
         => imagePath[r] = "absent"
    /\ pc[r] \in {"awaitUnlink", "awaitUnlinkErr"} => unlinkAttempts[r] = 1

C1_Witness ==
  \E r, q \in Reqs :
    /\ Done(r) /\ res[r].status = 200 /\ unlinkFailed[r] /\ unlinkAttempts[r] = 1
    /\ Done(q) /\ res[q].status = 500 /\ unlinkFailed[q] /\ unlinkAttempts[q] = 1
    /\ imagePath[q] = "present"

\* C2: once no request or frame is in flight, no tensor created by an
\* inference is still alive.
C2_TensorsReleased ==
  (Quiescent /\ microtasks = <<>>) => liveTensors = 0

\* C3: model.predict is never reached with the handle unset; after a failed
\* load no request is processed, every POST /predict answer is a 503 and every
\* streaming reply is an error message (the not-ready one for a frame that
\* got as far as predictLeafDisease).
C3_NoInferenceWithoutModel ==
  /\ ~forwardUnset
  /\ loadPc = "failed" =>
       /\ \A r \in Reqs : pc[r] \in {"idle", "handler", "done"}
       /\ \A r \in Reqs : res[r].status \in {0, 503}
       /\ \A k \in DOMAIN microtasks :
            ~microtasks[k].settled.ok /\ microtasks[k].settled.message = NotLoadedMessage
       /\ \A c \in Conns : \A k \in DOMAIN sent[c] :
            /\ sent[c][k].msg.type = "error"
            /\ inbox[c][sent[c][k].re].kind \in InferKinds
                 => sent[c][k].msg.error = NotLoadedMessage

C3_Witness ==
  /\ loadPc = "failed"
  /\ \/ \E r \in Reqs : Done(r) /\ imagePath[r] = "present" /\ res[r].status = 503
     \/ \E c \in Conns : \E k \in DOMAIN sent[c] :
          /\ inbox[c][sent[c][k].re].kind = "frame"
          /\ sent[c][k].msg.error = NotLoadedMessage
          /\ conn[c] = "open"

\* C4: a POST /predict handled while the handle is unset is answered 503
\* without any file-system call, with or without an attached file.
C4_NotReadyFirst ==
  \A r \in Reqs :
    sawModel[r] = "unset" =>
      /\ Done(r)
      /\ res[r].status = 503
      /\ fsAccess[r] = 0
      /\ unlinkAttempts[r] = 0

C4_Witness ==
  \E r, q \in Reqs :
    /\ sawModel[r] = "unset" /\ imagePath[r] = "present" /\ res[r].status = 503
    /\ sawModel[q] = "unset" /\ imagePath[q] = "none" /\ res[q].status = 503

\* C5: a request whose read, decode, forward pass or length check failed is
\* answered with status 500 whose details is the message of the error caught,
\* carries no prediction data, and no other request is answered 500.
C5_FailureIs500 ==
  \A r \in Reqs :
    /\ (Done(r) /\ err[r] # "") =>
         /\ res[r].status = 500
         /\ res[r].details = err[r]
         /\ res[r].predictions = <<>>
         /\ res[r].topPrediction = Seed
    /\ res[r].status = 500 => (Done(r) /\ err[r] # "")
    /\ (err[r] # "" /\ ~Done(r)) => (pc[r] = "awaitUnlinkErr" /\ res[r].status = 0)

C5_Witness ==
  \E r, q \in Reqs :
    /\ Done(r) /\ res[r].status = 500
    /\ res[r].details = "Model prediction failed: Error when checking input"
    /\ Done(q) /\ res[q].status = 500
    /\ res[q].details = "Expected 4 output classes but got 5"

\* C6: a failed deletion changes nothing in the answer: the success body with
\* status 200 on the success path, status 500 with the original message on the
\* failure path.
C6_CleanupFailureSwallowed ==
  \A r \in Reqs :
    (Done(r) /\ unlinkFailed[r]) =>
      IF err[r] = ""
        THEN /\ res[r].status = 200
             /\ res[r].predictions = response[r].predictions
             /\ res[r].topPrediction = response[r].topPrediction
             /\ Len(res[r].predictions) = LabelCount
             /\ res[r].details = ""
        ELSE /\ res[r].status = 500
             /\ res[r].details = err[r]

C6_Witness ==
  \E r, q \in Reqs :
    /\ Done(r) /\ unlinkFailed[r] /\ res[r].status = 200 /\ imagePath[r] = "absent"
    /\ Done(q) /\ unlinkFailed[q] /\ res[q].status = 500

\* C7: a failing message is answered by exactly one error message with an
\* empty prediction list on its own connection, the server never closes the
\* connection, and a valid frame that follows a failing message is answered by
\* exactly one prediction message.
C7_ErrorKeepsConnection ==
  \A c \in Conns :
    /\ closedBy[c] # "server"
    /\ conn[c] = "closed" => closedBy[c] = "peer"
    /\ \A i \in DOMAIN inbox[c] :
         /\ Pending(c, i) => Replies(c, i) = {}
         /\ (~Pending(c, i) /\ Fails(inbox[c][i])) =>
              /\ Cardinality(Replies(c, i)) = 1
              /\ \A k \in Replies(c, i) :
                   /\ sent[c][k].msg.type = "error"
                   /\ sent[c][k].msg.error # ""
                   /\ sent[c][k].msg.predictions = <<>>
         /\ (~Pending(c, i) /\ Valid(inbox[c][i])
               /\ \E j \in 1..(i - 1) : Fails(inbox[c][j])) =>
              /\ Cardinality(Replies(c, i)) = 1
              /\ \A k \in Replies(c, i) : sent[c][k].msg.type = "prediction"

C7_Witness ==
  \E c \in Conns :
    /\ Len(inbox[c]) = 2 /\ microtasks = <<>> /\ conn[c] = "open"
    /\ inbox[c][1].kind = "badImage" /\ inbox[c][1].ready
    /\ Valid(inbox[c][2])
    /\ Len(sent[c]) = 2
    /\ sent[c][1].msg.type = "error" /\ sent[c][2].msg.type = "prediction"

\* C8: on one connection the replies leave in the order in which the messages
\* they answer arrived.
C8_RepliesInArrivalOrder ==
  \A c \in Conns : \A k1, k2 \in DOMAIN sent[c] :
    k1 < k2 => sent[c][k1].re < sent[c][k2].re

\* C9: every prediction set sent to a client, by either adapter, has one entry
\* per label, entry i carrying label i.
C9_PredictionSetAligned ==
  /\ \A r \in Reqs : res[r].status = 200 => Aligned(res[r].predictions)
  /\ \A c \in Conns : \A k \in DOMAIN sent[c] :
       sent[c][k].msg.type = "prediction" => Aligned(sent[c][k].msg.predictions)

\* C10: when the reduce has visited every entry, the top prediction carries
\* the maximum probability of the set and is the first entry attaining it; an
\* all-zero or empty set leaves the seeded pick.
MaxOf(probs) ==
  IF probs = <<>> THEN 0
  ELSE CHOOSE m \in {probs[i] : i \in DOMAIN probs} :
         \A i \in DOMAIN probs : probs[i] <= m

C10_TopIsFirstMaximum ==
  reduceIdx > Len(rawOutput) =>
    LET predictions == Predictions(rawOutput)
        m == MaxOf(rawOutput)
    IN /\ topPrediction.probability = m
       /\ m = 0 => topPrediction = Seed
       /\ m > 0 =>
            \E i \in DOMAIN predictions :
              /\ rawOutput[i] = m
              /\ \A j \in 1..(i - 1) : rawOutput[j] < m
              /\ topPrediction = predictions[i]

C10_Witness ==
  /\ rawOutput = <<5, 7, 7, 0>>
  /\ reduceIdx > Len(rawOutput)
  /\ topPrediction = [className |-> "Healthy", probability |-> 7]

\* C11: a frame that arrives while the model handle is unset is answered by
\* exactly one error message, the not-ready one, on its own connection; the
\* forward pass is not run for it and the server does not close the connection.
C11_FrameBeforeLoad ==
  /\ ~forwardUnset
  /\ \A c \in Conns :
       /\ closedBy[c] # "server"
       /\ \A i \in DOMAIN inbox[c] :
            (inbox[c][i].kind \in InferKinds /\ ~inbox[c][i].ready) =>
              IF Pending(c, i)
                THEN /\ Replies(c, i) = {}
                     /\ \A k \in DOMAIN microtasks :
                          (microtasks[k].conn = c /\ microtasks[k].re = i) =>
                            /\ ~microtasks[k].settled.ok
                            /\ microtasks[k].settled.message = NotLoadedMessage
                ELSE /\ Cardinality(Replies(c, i)) = 1
                     /\ \A k \in Replies(c, i) :
                          /\ sent[c][k].from = c
                          /\ sent[c][k].msg.type = "error"
                          /\ sent[c][k].msg.error = "Model not loaded yet"
                          /\ sent[c][k].msg.predictions = <<>>

C11_Witness ==
  \E c \in Conns :
    /\ conn[c] = "open" /\ microtasks = <<>>
    /\ Len(inbox[c]) = 2
    /\ inbox[c][1].kind = "frame" /\ ~inbox[c][1].ready
    /\ inbox[c][2].kind = "frame" /\ inbox[c][2].ready
    /\ Len(sent[c]) = 2
    /\ sent[c][1].msg.error = "Model not loaded yet"
    /\ sent[c][2].msg.type = "prediction"

\* C12: with the model loaded, a POST /predict without a file is answered 400
\* "No image uploaded" and the handler makes no file-system call for it.
C12_NoFileIs400 ==
  \A r \in Reqs :
    (sawModel[r] = "loaded" /\ imagePath[r] = "none") =>
      /\ Done(r)
      /\ res[r].status = 400
      /\ res[r].error = "No image uploaded"
      /\ res[r].predictions = <<>>
      /\ fsAccess[r] = 0
      /\ unlinkAttempts[r] = 0

C12_Witness ==
  \E r, q \in Reqs :
    /\ r # q
    /\ sawModel[r] = "loaded" /\ imagePath[r] = "none" /\ res[r].status = 400
    /\ res[q].status = 200

\* C13: a frame whose inference succeeds is answered by exactly one prediction
\* message carrying its predictions, top prediction and confidence, on the
\* connection it arrived on; nothing is sent for it on another connection and
\* no error message is sent for it.
C13_OnePredictionPerFrame ==
  \A c \in Conns :
    /\ \A k \in DOMAIN sent[c] : sent[c][k].from = c
    /\ \A i \in DOMAIN inbox[c] :
         (Valid(inbox[c][i]) /\ ~Pending(c, i)) =>
           /\ Cardinality(Replies(c, i)) = 1
           /\ \A k \in Replies(c, i) :
                /\ sent[c][k].msg.type = "prediction"
                /\ sent[c][k].msg.error = ""
                /\ Len(sent[c][k].msg.predictions) = model
                /\ sent[c][k].msg.topPrediction.probability =
                     MaxOf([j \in DOMAIN sent[c][k].msg.predictions |->
                              sent[c][k].msg.predictions[j].probability])
                /\ sent[c][k].msg.confidence # ""

C13_Witness ==
  \E c, d \in Conns :
    /\ c # d /\ conn[c] = "open" /\ conn[d] = "open" /\ microtasks = <<>>
    /\ Len(inbox[c]) = 1 /\ Valid(inbox[c][1])
    /\ Len(sent[c]) = 1 /\ sent[c][1].msg.type = "prediction"
    /\ sent[c][1].msg.confidence = "70.00"
    /\ sent[d] = <<>>

\* C14: with several POST /predict requests in flight, a handler reads only the
\* upload stored for its own request and unlinks only that upload, so no
\* cleanup removes a file another request has still to read; a 200 answer
\* carries the predictions the handler built from the file it read itself.
C14_RequestsIsolated ==
  \A r \in Reqs :
    /\ readOf[r] \in {0, r}
    /\ unlinkOf[r] \in {0, r}
    /\ unlinkAttempts[r] > 0 => unlinkOf[r] = r
    /\ pc[r] \in {"awaitProbs", "awaitUnlink", "awaitUnlinkErr"} => readOf[r] = r
    /\ (Done(r) /\ res[r].status = 200) =>
         /\ readOf[r] = r
         /\ res[r].predictions = response[r].predictions
         /\ res[r].topPrediction = response[r].topPrediction

C14_Witness ==
  \E r, q \in Reqs :
    /\ r # q
    /\ Done(q) /\ res[q].status = 200 /\ unlinkOf[q] = q /\ imagePath[q] = "absent"
    /\ pc[r] = "awaitProbs" /\ readOf[r] = r /\ imagePath[r] = "present"
    /\ Predictions(probabilities[r]) # response[q].predictions

RECURSIVE CountLow(_)
CountLow(msgs) ==
  IF msgs = <<>> THEN 0
  ELSE (IF msgs[1].type = "prediction" /\ Warns(msgs[1].topPrediction) THEN 1 ELSE 0)
       + CountLow(Tail(msgs))

RECURSIVE SumLow(_)
SumLow(S) ==
  IF S = {} THEN 0
  ELSE LET c == CHOOSE x \in S : TRUE IN
         CountLow([k \in DOMAIN sent[c] |-> sent[c][k].msg]) + SumLow(S \ {c})

\* successful inferences so far whose top prediction is below the threshold
LowInferences ==
  IF program \in HttpPrograms
    THEN Cardinality({r \in Reqs : response[r] # NoRes /\ Warns(response[r].topPrediction)})
    ELSE SumLow(Conns)
         + CountLow([k \in DOMAIN microtasks |->
                       IF microtasks[k].settled.ok
                         THEN PredictionMsg(Prediction(microtasks[k].settled.probs))
                         ELSE NoMsg])

\* C15 as stated: in every adapter the low-confidence signal has been emitted
\* once for each successful inference whose top probability is below 0.6 and
\* for no other, and the answer has the same status or message type either way.
C15_LowConfidenceSignalled ==
  /\ lowConfidenceWarns = LowInferences
  /\ \A r \in Reqs : (Done(r) /\ response[r] # NoRes) => res[r].status = 200

\* C16 as stated: once every POST /predict request has finished, no stored
\* upload of any of them is left on storage.
C16_NoTempFileRemains ==
  Quiescent => \A r \in Reqs : imagePath[r] # "present"

\* C17: a request that reached the handler is answered exactly once, with 503
\* (handle unset), 400 (no file), 200 (success) or 500 (failure): never twice,
\* nothing before it is finished; and again and again no request is in flight,
\* so every request that reached the handler does finish.
C17_ExactlyOneResponse ==
  /\ [](\A r \in Reqs :
          /\ answers[r] <= 1
          /\ Done(r) <=> answers[r] = 1
          /\ res[r].status # 0 <=> answers[r] = 1
          /\ Done(r) => res[r].status \in {503, 400, 200, 500}
          /\ res[r].status = 503 => sawModel[r] = "unset"
          /\ res[r].status = 400 => (sawModel[r] = "loaded" /\ imagePath[r] = "none")
          /\ res[r].status = 200 => (response[r] # NoRes /\ err[r] = "")
          /\ res[r].status = 500 => err[r] # "")
  /\ []<>Quiescent

C17_Witness ==
  \E r, q \in Reqs :
    /\ Done(r) /\ answers[r] = 1 /\ res[r].status = 500 /\ unlinkFailed[r]
    /\ Done(q) /\ answers[q] = 1 /\ res[q].status = 200 /\ unlinkFailed[q]
    /\ imagePath[r] = "present" /\ imagePath[q] = "present"

\* some request was answered with a status other than 503, or the health
\* probe reports modelLoaded true
EverReady ==
  \/ \E r \in Reqs : res[r].status \notin {0, 503}
  \/ Health.modelLoaded

\* C18: the handle, once assigned, is never unset or replaced; after a request
\* was answered with a status other than 503 or the health probe reported
\* modelLoaded true, no step answers a request 503 or rejects a frame as not
\* ready, and the health probe goes on reporting true.
C18_HandleSetOnce ==
  [][/\ model # Unset => model' = model
     /\ EverReady =>
          /\ model # Unset
          /\ \A r \in Reqs : res'[r].status = 503 => res[r].status = 503
          /\ \A k \in DOMAIN microtasks' :
               k > Len(microtasks) => microtasks'[k].settled.message # NotLoadedMessage
          /\ Health'.modelLoaded]_vars

C18_Witness ==
  /\ Health.modelLoaded /\ Health.connectedClients = 1
  /\ \E k \in DOMAIN microtasks : microtasks[k].settled.ok
  /\ \E c \in Conns : \E i \in DOMAIN inbox[c] :
       inbox[c][i].kind = "frame" /\ ~inbox[c][i].ready

\* C19: a parsed message whose type is not "frame" starts no inference, gets no
\* reply of either type on any connection, and the server does not close the
\* connection it came on.
C19_OtherTypeIgnored ==
  \A c \in Conns : \A i \in DOMAIN inbox[c] :
    inbox[c][i].kind = "other" =>
      /\ ~Pending(c, i)
      /\ \A d \in Conns : \A k \in DOMAIN sent[d] :
           ~(sent[d][k].from = c /\ sent[d][k].re = i)
      /\ closedBy[c] # "server"

C19_Witness ==
  \E c \in Conns :
    /\ conn[c] = "open" /\ microtasks = <<>>
    /\ Len(inbox[c]) = 2
    /\ inbox[c][1].kind = "other"
    /\ Valid(inbox[c][2])
    /\ Len(sent[c]) = 1 /\ sent[c][1].re = 2 /\ sent[c][1].msg.type = "prediction"

====
